---------------------------- MODULE Spec2Model ----------------------------
(***************************************************************************)
(* The traffic simulator (message bridge) of internal/sim: RunV5 and RunV3 *)
(* of internal/sim/v5.go.  One state machine covers both variants; the     *)
(* variable "variant" says which function is running.                      *)
(*                                                                         *)
(* Threads of the program and their positions:                             *)
(*   pc      the goroutine running RunV5 / RunV3 (startup, the select      *)
(*           loop, one health tick, the shutdown sequence)                 *)
(*   cbs     invocations of onPublish / onMessage in progress              *)
(*   tasks   delivery goroutines (go func() { ... }) spawned and not       *)
(*           finished                                                      *)
(* Every atomic operation of the source (atomic.Add/Load/Store, a channel  *)
(* send or receive, a lock acquisition) is a step of its own.              *)
(***************************************************************************)
EXTENDS Integers, Sequences, FiniteSets, Bags, TLC

(***************************************************************************)
(* Bounds of the model.                                                    *)
(***************************************************************************)
MaxMsgs == 2
MaxCallbacks == 2
MaxStall == 4
KeepTicks == 3
\* TLC's integers are 32 bits wide: unsigned subtraction wraps at this
\* modulus, which stands for the 2^64 of the uint64 counters.
UintModulus == 1073741824

(***************************************************************************)
(* Program constants.                                                      *)
(***************************************************************************)
StallTicks == 3
ErrorSpikeAbs == 100
DefaultQueueSize == 1000

VARIABLES
    variant,            \* "v5" (RunV5) or "v3" (RunV3)
    cfg,                \* Config: QoS, NoRetain, QueueSize
    srcMsgs,            \* the publishes the source broker may forward
    pending,            \* how many publishes the source broker will still forward
    sigChan,            \* number of signals buffered in sigChan (capacity 1)
    pc,                 \* position of the main goroutine
    ret,                \* caller of connectTarget / connectSource in progress
    receivedCount, deliveredCount, errorCount,
    shuttingDown,       \* atomic.Bool
    ctxCancelled,       \* ctx of RunV5 has been cancelled
    sem,                \* number of elements in the channel sem
    targetMu,           \* "free" or "w" (held by connectTarget / shutdown)
    targetClient,       \* 0 is nil, else the id of the connection it wraps
    targetConn,         \* 0 is nil
    tOpen,              \* ids of the target connections that are open
    sourceMu,           \* "free" or "w"
    sourceConn,         \* 0 is nil
    sOpen,              \* ids of the source connections that are open
    subscribed,         \* id of the source connection with a live subscription, or 0
    lastReceived, lastDelivered, lastErrors,
    sourceStallCount,
    received, delivered, errors,                \* what the current (else the last) tick read
    deltaReceived, deltaDelivered, deltaErrors, \* locals of the tick in progress, else 0
    finalReceived, finalDelivered,
    cbs,                \* bag of the onPublish / onMessage invocations in progress
    tasks,              \* bag of the delivery goroutines spawned and not finished
    publishCalls,       \* Publish calls issued on the target so far
    publishOk,          \* Publish calls that succeeded
    targetGot,          \* the publishes the target broker has accepted
    tickLog,            \* console: what the last KeepTicks ticks reported
    sumDeltas,          \* console: per counter, the sum of the deltas reported so far
    tgtTry              \* calls of connectTarget by the tick in progress, else 0

vars == << variant, cfg, srcMsgs, pending, sigChan, pc, ret,
           receivedCount, deliveredCount, errorCount, shuttingDown, ctxCancelled,
           sem, targetMu, targetClient, targetConn, tOpen,
           sourceMu, sourceConn, sOpen, subscribed,
           lastReceived, lastDelivered, lastErrors, sourceStallCount,
           received, delivered, errors, deltaReceived, deltaDelivered, deltaErrors,
           finalReceived, finalDelivered, cbs, tasks,
           publishCalls, publishOk, targetGot, tickLog, sumDeltas, tgtTry >>

\* groups of variables, for UNCHANGED
cfgVars == << variant, cfg, srcMsgs >>
counterVars == << receivedCount, deliveredCount, errorCount >>
targetVars == << targetMu, targetClient, targetConn, tOpen >>
sourceVars == << sourceMu, sourceConn, sOpen, subscribed >>
lastVars == << lastReceived, lastDelivered, lastErrors, sourceStallCount >>
tickVars == << received, delivered, errors, deltaReceived, deltaDelivered, deltaErrors >>
finalVars == << finalReceived, finalDelivered >>
wireVars == << publishCalls, publishOk, targetGot >>
mainVars == << pc, ret, lastVars, tickVars, finalVars, tickLog, sumDeltas, tgtTry >>

(***************************************************************************)
(* Messages.                                                               *)
(***************************************************************************)
\* pr.Packet.Properties == nil
NoProps ==
    [present |-> FALSE, PayloadFormat |-> 0, MessageExpiry |-> 0, ContentType |-> "",
     ResponseTopic |-> "", CorrelationData |-> "", User |-> "",
     SubscriptionIdentifier |-> 0, TopicAlias |-> 0]

SomeProps ==
    [present |-> TRUE, PayloadFormat |-> 1, MessageExpiry |-> 60, ContentType |-> "text",
     ResponseTopic |-> "r/1", CorrelationData |-> "c", User |-> "k=v",
     SubscriptionIdentifier |-> 0, TopicAlias |-> 0]

NoMsg == [topic |-> "", payload |-> "", qos |-> 0, retain |-> FALSE, props |-> NoProps]

Msg(t, p, q, r, pp) == [topic |-> t, payload |-> p, qos |-> q, retain |-> r, props |-> pp]

\* byte(x) of an int: the low 8 bits
Byte(x) == x % 256

\* mutant: the override is ignored
RelayQoSKeepSource(c, m) == m.qos

\* v5.go 126-129 and 467-470: qos := source QoS; if cfg.QoS >= 0 { qos = byte(cfg.QoS) }
RelayQoS(c, m) == IF c.QoS >= 0 THEN Byte(c.QoS) ELSE m.qos

\* mutant: the retain flag is passed through whatever cfg.NoRetain says
RelayRetainKeepSource(c, m) == m.retain

\* v5.go 130-133 and 471-474: retain := source retain; if cfg.NoRetain { retain = false }
RelayRetain(c, m) == IF c.NoRetain THEN FALSE ELSE m.retain

\* mutant: the user properties are not copied
CopyPropsDropUser(pp) ==
    IF pp.present
    THEN [present |-> TRUE, PayloadFormat |-> pp.PayloadFormat,
          MessageExpiry |-> pp.MessageExpiry, ContentType |-> pp.ContentType,
          ResponseTopic |-> pp.ResponseTopic, CorrelationData |-> pp.CorrelationData,
          User |-> "", SubscriptionIdentifier |-> 0, TopicAlias |-> 0]
    ELSE NoProps

\* v5.go 142-151: the six fields copied into a new PublishProperties
CopyProps(pp) ==
    IF pp.present
    THEN [present |-> TRUE, PayloadFormat |-> pp.PayloadFormat,
          MessageExpiry |-> pp.MessageExpiry, ContentType |-> pp.ContentType,
          ResponseTopic |-> pp.ResponseTopic, CorrelationData |-> pp.CorrelationData,
          User |-> pp.User, SubscriptionIdentifier |-> 0, TopicAlias |-> 0]
    ELSE NoProps

\* v5.go 135-151: pub := &paho.Publish{...}
BuildPub(c, m) ==
    [topic |-> m.topic, payload |-> m.payload, qos |-> RelayQoS(c, m),
     retain |-> RelayRetain(c, m), props |-> CopyProps(m.props)]

\* v5.go 478-483: the arguments of the goroutine of RunV3 (no properties in 3.1.1)
BuildPubV3(c, m) ==
    [topic |-> m.topic, payload |-> m.payload, qos |-> RelayQoS(c, m),
     retain |-> RelayRetain(c, m), props |-> NoProps]

\* uint64 subtraction
USub(a, b) == (a - b) % UintModulus

(***************************************************************************)
(* Callbacks and goroutines in progress.  A callback is [pc, pr], a        *)
(* goroutine is [pc, pub, client]; each collection is a bag, since neither *)
(* has an identity in the program.                                         *)
(***************************************************************************)
Cb(p, m) == [pc |-> p, pr |-> m]
Task(p, m, c) == [pc |-> p, pub |-> m, client |-> c]

Put(B, e) == B (+) SetToBag({e})
Drop(B, e) == B (-) SetToBag({e})
Move(B, e, f) == Put(Drop(B, e), f)

Min(S) == CHOOSE x \in S : \A y \in S : x <= y

\* a connection object not referenced by anything
FreshTargetId ==
    Min((1..(MaxMsgs + 2)) \ ({targetConn, targetClient} \cup {t.client : t \in BagToSet(tasks)}))
FreshSourceId == Min((1..2) \ {sourceConn})


(***************************************************************************)
(* Initial states: the process has just entered RunV5 / RunV3.             *)
(***************************************************************************)
MaxQueue == 1

InitWith(variants, cfgs, msgSets, budgets) ==
    /\ variant \in variants
    /\ cfg \in cfgs
    /\ srcMsgs \in msgSets
    /\ pending \in budgets
    /\ sigChan = 0
    /\ pc = "start"
    /\ ret = "none"
    /\ receivedCount = 0 /\ deliveredCount = 0 /\ errorCount = 0
    /\ shuttingDown = FALSE
    /\ ctxCancelled = FALSE
    /\ sem = 0
    /\ targetMu = "free" /\ targetClient = 0 /\ targetConn = 0 /\ tOpen = {}
    /\ sourceMu = "free" /\ sourceConn = 0 /\ sOpen = {} /\ subscribed = 0
    /\ lastReceived = 0 /\ lastDelivered = 0 /\ lastErrors = 0
    /\ sourceStallCount = 0
    /\ received = 0 /\ delivered = 0 /\ errors = 0
    /\ deltaReceived = 0 /\ deltaDelivered = 0 /\ deltaErrors = 0
    /\ finalReceived = 0 /\ finalDelivered = 0
    /\ cbs = EmptyBag
    /\ tasks = EmptyBag
    /\ publishCalls = 0 /\ publishOk = 0 /\ targetGot = {}
    /\ tickLog = << >>
    /\ sumDeltas = [received |-> lastReceived, delivered |-> lastDelivered,
                    errors |-> lastErrors]
    /\ tgtTry = 0

\* the end-to-end scenario of the bridge: a retained QoS 0 publish on t/1
Msg1 == Msg("t/1", "x", 0, TRUE, NoProps)

Init ==
    InitWith({"v5", "v3"},
             {[QoS |-> -1, NoRetain |-> TRUE, QueueSize |-> q] : q \in 0..MaxQueue},
             {{Msg1}}, {MaxMsgs})

\* the process is running: RunV5 / RunV3 has not returned
Running == pc \notin {"done", "failed"}

(***************************************************************************)
(* RunV5: startup.                                                         *)
(***************************************************************************)
\* v5.go 29-39 (RunV5) and 405-415 (RunV3): CheckBrokerReachable of both brokers
Start(outcome) ==
    /\ pc = "start"
    /\ IF outcome = "ok"
       THEN IF variant = "v5"
            THEN pc' = "ctLock" /\ ret' = "init"
            ELSE pc' = "v3Target" /\ ret' = ret
       ELSE pc' = "failed" /\ ret' = ret
    /\ UNCHANGED << cfgVars, sigChan, pending, counterVars, shuttingDown, ctxCancelled, sem,
                    targetVars, sourceVars, lastVars, tickVars, finalVars, cbs, tasks,
                    wireVars, tickLog, sumDeltas, tgtTry >>

(***************************************************************************)
(* connectTarget (v5.go 64-108), in two steps: take the lock and close the *)
(* previous connection; then dial, handshake, install and return.          *)
(***************************************************************************)
CtLock ==
    /\ pc = "ctLock"
    /\ targetMu = "free"
    /\ targetMu' = "w"
    /\ tOpen' = tOpen \ {targetConn}
    /\ pc' = "ctDial"
    /\ UNCHANGED << cfgVars, sigChan, pending, ret, counterVars, shuttingDown, ctxCancelled, sem,
                    targetClient, targetConn, sourceVars, lastVars, tickVars, finalVars,
                    cbs, tasks, wireVars, tickLog, sumDeltas, tgtTry >>

\* mutant: a failed handshake leaves the connection it dialed open
CtLinkLeakOnHandshakeFail(outcome) ==
    /\ targetMu' = "free"
    /\ IF outcome = "ok"
       THEN /\ tOpen' = tOpen \cup {FreshTargetId}
            /\ targetClient' = FreshTargetId
            /\ targetConn' = FreshTargetId
       ELSE /\ tOpen' = IF outcome = "handshakeFail" THEN tOpen \cup {FreshTargetId} ELSE tOpen
            /\ UNCHANGED << targetClient, targetConn >>

\* mutant: a failed attempt clears the stored client
CtLinkClearOnFail(outcome) ==
    /\ targetMu' = "free"
    /\ IF outcome = "ok"
       THEN /\ tOpen' = tOpen \cup {FreshTargetId}
            /\ targetClient' = FreshTargetId
            /\ targetConn' = FreshTargetId
       ELSE /\ targetClient' = 0
            /\ UNCHANGED << tOpen, targetConn >>

\* v5.go 72-107: the link state after the attempt; a connection opened by a
\* failed handshake is closed again (conn.Close(), line 101)
CtLink(outcome) ==
    /\ targetMu' = "free"
    /\ IF outcome = "ok"
       THEN /\ tOpen' = tOpen \cup {FreshTargetId}
            /\ targetClient' = FreshTargetId
            /\ targetConn' = FreshTargetId
       ELSE UNCHANGED << tOpen, targetClient, targetConn >>

\* mutant: the baseline is not reset with the counter
ResetErrorsKeepBaseline ==
    /\ errorCount' = 0
    /\ lastErrors' = lastErrors

\* mutant: only the baseline is reset, the counter keeps its total
ResetErrorsBaselineOnly ==
    /\ errorCount' = errorCount
    /\ lastErrors' = 0

\* v5.go 341-344: after a successful target reconnect
ResetErrors ==
    /\ errorCount' = 0
    /\ lastErrors' = 0

\* connectTarget returns to its caller: startup (249-252) or the tick (338-345)
CtFinish(outcome) ==
    /\ pc = "ctDial"
    /\ outcome = "ok" => ~ctxCancelled
    /\ CtLink(outcome)
    /\ IF ret = "init"
       THEN /\ IF outcome = "ok"
               THEN pc' = "csLock" /\ ret' = "init"
               ELSE pc' = "failed" /\ ret' = "none"
            /\ UNCHANGED << errorCount, lastErrors >>
       ELSE /\ pc' = "tickPrint" /\ ret' = "none"
            /\ IF outcome = "ok"
               THEN ResetErrors
               ELSE UNCHANGED << errorCount, lastErrors >>
    /\ UNCHANGED << cfgVars, sigChan, pending, receivedCount, deliveredCount, shuttingDown,
                    ctxCancelled, sem, sourceVars, lastReceived, lastDelivered,
                    sourceStallCount, tickVars, finalVars, cbs, tasks, wireVars, tickLog, sumDeltas, tgtTry >>

(***************************************************************************)
(* connectSource (v5.go 190-246), in two steps like connectTarget.         *)
(***************************************************************************)
CsLock ==
    /\ pc = "csLock"
    /\ sourceMu = "free"
    /\ sourceMu' = "w"
    /\ sOpen' = sOpen \ {sourceConn}
    /\ subscribed' = IF subscribed = sourceConn THEN 0 ELSE subscribed
    /\ pc' = "csDial"
    /\ UNCHANGED << cfgVars, sigChan, pending, ret, counterVars, shuttingDown, ctxCancelled, sem,
                    targetVars, sourceConn, lastVars, tickVars, finalVars,
                    cbs, tasks, wireVars, tickLog, sumDeltas, tgtTry >>

\* v5.go 198-245: dial, handshake, subscribe; every failure closes what it opened
CsLink(outcome) ==
    /\ sourceMu' = "free"
    /\ IF outcome = "ok"
       THEN /\ sOpen' = sOpen \cup {FreshSourceId}
            /\ sourceConn' = FreshSourceId
            /\ subscribed' = FreshSourceId
       ELSE UNCHANGED << sOpen, sourceConn, subscribed >>

\* mutant: the stall counter is reset whatever the attempt returned
StallResetAlways(outcome) == 0

\* v5.go 326-329: the stall counter after the reconnect attempt returned
StallAfterReconnect(outcome) == IF outcome = "ok" THEN 0 ELSE sourceStallCount

\* mutant: the target connection is left open when the source connect fails
TargetLeftOpen == tOpen

\* v5.go 255-259: the initial connectSource failed; targetConn.Close() under targetMu
TargetAfterSourceFailure == tOpen \ {targetConn}

\* connectSource returns to its caller: startup (254-262) or the tick (324-329)
CsFinish(outcome) ==
    /\ pc = "csDial"
    /\ outcome = "ok" => ~ctxCancelled
    /\ CsLink(outcome)
    /\ IF ret = "init"
       THEN /\ IF outcome = "ok"
               THEN pc' = "loop" /\ tOpen' = tOpen
               ELSE pc' = "failed" /\ tOpen' = TargetAfterSourceFailure
            /\ UNCHANGED sourceStallCount
       ELSE /\ pc' = "tickSpike"
            /\ sourceStallCount' = StallAfterReconnect(outcome)
            /\ tOpen' = tOpen
    /\ ret' = "none"
    /\ UNCHANGED << cfgVars, sigChan, pending, counterVars, shuttingDown, ctxCancelled, sem,
                    targetMu, targetClient, targetConn, lastReceived, lastDelivered,
                    lastErrors, tickVars, finalVars, cbs, tasks, wireVars, tickLog, sumDeltas, tgtTry >>


(***************************************************************************)
(* RunV5: one health tick (v5.go 306-375).                                 *)
(***************************************************************************)
\* v5.go 320: if deltaReceived == 0 && received > 0
Stalled(dR, recv) == dR = 0 /\ recv > 0

\* mutant: the reconnect is commanded on the third stalled tick only
StallLimitExact(count) == count = StallTicks

\* mutant: the reconnect is commanded one stalled tick early
StallLimitOffByOne(count) == count >= StallTicks - 1

\* v5.go 322: if sourceStallCount >= 3
StallLimitReached(count) == count >= StallTicks

\* mutant: an error ratio of exactly one half trips the detector
ErrorSpikeAtHalf(dE, dD) == dE > ErrorSpikeAbs \/ (dD > 0 /\ 2 * dE >= dD)

\* v5.go 336: deltaErrors > 100 || (deltaDelivered > 0 &&
\* float64(deltaErrors)/float64(deltaDelivered) > 0.5).  Both conversions are
\* exact below 2^53 and the quotient of two such values rounds to more than
\* 0.5 exactly when 2*deltaErrors > deltaDelivered.
ErrorSpike(dE, dD) == dE > ErrorSpikeAbs \/ (dD > 0 /\ 2 * dE > dD)

\* the console keeps the reports of the last KeepTicks ticks
Keep(log) == IF Len(log) > KeepTicks THEN Tail(log) ELSE log

\* v5.go 306-307: the ticker fires; received := atomic.LoadUint64(&receivedCount)
TickR ==
    /\ pc = "loop"
    /\ variant = "v5"
    /\ sourceStallCount < MaxStall
    /\ received' = receivedCount
    /\ pc' = "tickD"
    /\ UNCHANGED << cfgVars, sigChan, pending, ret, counterVars, shuttingDown, ctxCancelled, sem,
                    targetVars, sourceVars, lastVars, delivered, errors, deltaReceived,
                    deltaDelivered, deltaErrors, finalVars, cbs, tasks, wireVars, tickLog, sumDeltas, tgtTry >>

\* v5.go 308: delivered := atomic.LoadUint64(&deliveredCount)
TickD ==
    /\ pc = "tickD"
    /\ delivered' = deliveredCount
    /\ pc' = "tickE"
    /\ UNCHANGED << cfgVars, sigChan, pending, ret, counterVars, shuttingDown, ctxCancelled, sem,
                    targetVars, sourceVars, lastVars, received, errors, deltaReceived,
                    deltaDelivered, deltaErrors, finalVars, cbs, tasks, wireVars, tickLog, sumDeltas, tgtTry >>

\* v5.go 309-333: errors := atomic.LoadUint64(&errorCount); the deltas; the new
\* baselines; the stall detector up to its call of connectSource
TickE ==
    /\ pc = "tickE"
    /\ errors' = errorCount
    /\ deltaReceived' = USub(received, lastReceived)
    /\ deltaDelivered' = USub(delivered, lastDelivered)
    /\ deltaErrors' = USub(errorCount, lastErrors)
    /\ lastReceived' = received
    /\ lastDelivered' = delivered
    /\ lastErrors' = errorCount
    /\ LET stalled == Stalled(USub(received, lastReceived), received)
           count == IF stalled THEN sourceStallCount + 1 ELSE 0
           reconnect == stalled /\ StallLimitReached(count)
       IN /\ sourceStallCount' = count
          /\ IF reconnect
             THEN pc' = "csLock" /\ ret' = "stall"
             ELSE pc' = "tickSpike" /\ ret' = ret
          /\ sumDeltas' = [received |-> sumDeltas.received + USub(received, lastReceived),
                           delivered |-> sumDeltas.delivered + USub(delivered, lastDelivered),
                           errors |-> sumDeltas.errors + USub(errorCount, lastErrors)]
          /\ tickLog' = Keep(Append(tickLog,
                             [stalled |-> stalled, count0 |-> sourceStallCount,
                              srcTry |-> IF reconnect THEN 1 ELSE 0]))
    /\ UNCHANGED << cfgVars, sigChan, pending, counterVars, shuttingDown, ctxCancelled, sem,
                    targetVars, sourceVars, received, delivered, finalVars, cbs, tasks,
                    wireVars, tgtTry >>

\* v5.go 335-338: the error-spike detector up to its call of connectTarget
TickSpike ==
    /\ pc = "tickSpike"
    /\ IF ErrorSpike(deltaErrors, deltaDelivered)
       THEN /\ pc' = "ctLock" /\ ret' = "spike"
            /\ tgtTry' = tgtTry + 1
       ELSE /\ pc' = "tickPrint" /\ ret' = ret
            /\ tgtTry' = tgtTry
    /\ UNCHANGED << cfgVars, sigChan, pending, counterVars, shuttingDown, ctxCancelled, sem,
                    targetVars, sourceVars, lastVars, tickVars, finalVars, cbs, tasks,
                    wireVars, tickLog, sumDeltas >>

\* v5.go 348-375: the rates, the percentages and the metrics line
TickPrint ==
    /\ pc = "tickPrint"
    /\ pc' = "loop"
    /\ deltaReceived' = 0 /\ deltaDelivered' = 0 /\ deltaErrors' = 0
    /\ tgtTry' = 0
    /\ UNCHANGED << cfgVars, sigChan, pending, ret, counterVars, shuttingDown, ctxCancelled, sem,
                    targetVars, sourceVars, lastVars, received, delivered, errors,
                    finalVars, cbs, tasks, wireVars, tickLog, sumDeltas >>

(***************************************************************************)
(* The operator interrupts the process.  signal.Notify (v5.go 272-273, and *)
(* 539-540 in RunV3) registers sigChan, of capacity 1, once both links are *)
(* up: from then on a SIGINT or SIGTERM is put in the channel if it has    *)
(* room.  Nothing receives from sigChan once the shutdown has begun.       *)
(***************************************************************************)
Bridging ==
    /\ Running /\ ~shuttingDown
    /\ pc \notin {"start", "v3Target", "v3Source", "v3Subscribe"}
    /\ ret # "init"

SigArrive ==
    /\ Bridging
    /\ sigChan = 0
    /\ sigChan' = 1
    /\ UNCHANGED << cfgVars, pending, counterVars, shuttingDown, ctxCancelled, sem,
                    targetVars, sourceVars, mainVars, cbs, tasks, wireVars >>

(***************************************************************************)
(* RunV5: shutdown (v5.go 282-304).                                        *)
(***************************************************************************)
\* mutant: the shutdown goes straight to the target link
SignalSkipSource ==
    /\ pc = "loop"
    /\ variant = "v5"
    /\ sigChan > 0
    /\ sigChan' = sigChan - 1
    /\ shuttingDown' = TRUE
    /\ pc' = "sdTarget"
    /\ UNCHANGED << cfgVars, pending, ret, counterVars, ctxCancelled, sem,
                    targetVars, sourceVars, lastVars, tickVars, finalVars, cbs, tasks,
                    wireVars, tickLog, sumDeltas, tgtTry >>

\* v5.go 282-286: the signal is taken from sigChan; shuttingDown.Store(true)
Signal ==
    /\ pc = "loop"
    /\ variant = "v5"
    /\ sigChan > 0
    /\ sigChan' = sigChan - 1
    /\ shuttingDown' = TRUE
    /\ pc' = "sdCancel"
    /\ UNCHANGED << cfgVars, pending, ret, counterVars, ctxCancelled, sem,
                    targetVars, sourceVars, lastVars, tickVars, finalVars, cbs, tasks,
                    wireVars, tickLog, sumDeltas, tgtTry >>

\* v5.go 287: cancel()
SdCancel ==
    /\ pc = "sdCancel"
    /\ ctxCancelled' = TRUE
    /\ pc' = "sdSource"
    /\ UNCHANGED << cfgVars, sigChan, pending, ret, counterVars, shuttingDown, sem,
                    targetVars, sourceVars, lastVars, tickVars, finalVars, cbs, tasks,
                    wireVars, tickLog, sumDeltas, tgtTry >>

\* v5.go 289-293: sourceConn.Close() under sourceMu
SdSource ==
    /\ pc = "sdSource"
    /\ sourceMu = "free"
    /\ sOpen' = sOpen \ {sourceConn}
    /\ subscribed' = IF subscribed = sourceConn THEN 0 ELSE subscribed
    /\ pc' = "sdTarget"
    /\ UNCHANGED << cfgVars, sigChan, pending, ret, counterVars, shuttingDown, ctxCancelled, sem,
                    targetVars, sourceMu, sourceConn, lastVars, tickVars, finalVars,
                    cbs, tasks, wireVars, tickLog, sumDeltas, tgtTry >>

\* v5.go 295-299: targetConn.Close() under targetMu
SdTarget ==
    /\ pc = "sdTarget"
    /\ targetMu = "free"
    /\ tOpen' = tOpen \ {targetConn}
    /\ pc' = "sdFinalR"
    /\ UNCHANGED << cfgVars, sigChan, pending, ret, counterVars, shuttingDown, ctxCancelled, sem,
                    targetMu, targetClient, targetConn, sourceVars, lastVars, tickVars,
                    finalVars, cbs, tasks, wireVars, tickLog, sumDeltas, tgtTry >>

\* v5.go 301: finalReceived := atomic.LoadUint64(&receivedCount)
SdFinalR ==
    /\ pc = "sdFinalR"
    /\ finalReceived' = receivedCount
    /\ pc' = "sdFinalD"
    /\ UNCHANGED << cfgVars, sigChan, pending, ret, counterVars, shuttingDown, ctxCancelled, sem,
                    targetVars, sourceVars, lastVars, tickVars, finalDelivered,
                    cbs, tasks, wireVars, tickLog, sumDeltas, tgtTry >>

\* v5.go 302-304: finalDelivered := atomic.LoadUint64(&deliveredCount); the
\* summary line; return nil
SdFinalD ==
    /\ pc = "sdFinalD"
    /\ finalDelivered' = deliveredCount
    /\ pc' = "done"
    /\ UNCHANGED << cfgVars, sigChan, pending, ret, counterVars, shuttingDown, ctxCancelled, sem,
                    targetVars, sourceVars, lastVars, tickVars, finalReceived,
                    cbs, tasks, wireVars, tickLog, sumDeltas, tgtTry >>


(***************************************************************************)
(* The source broker forwards a publish: the client library invokes the    *)
(* handler installed at v5.go 206 (RunV5) or 494 (RunV3).                  *)
(***************************************************************************)
Arrive(m) ==
    /\ Running
    /\ pending > 0
    /\ subscribed # 0 /\ subscribed \in sOpen
    /\ BagCardinality(cbs) < MaxCallbacks
    /\ cbs' = Put(cbs, Cb("recv", m))
    /\ pending' = pending - 1
    /\ UNCHANGED << cfgVars, sigChan, counterVars, shuttingDown, ctxCancelled, sem,
                    targetVars, sourceVars, mainVars, tasks, wireVars >>

(***************************************************************************)
(* RunV5: onPublish (v5.go 111-187).                                       *)
(***************************************************************************)
\* mutant: the received counter is not incremented
CbRecvUncounted(c) ==
    /\ Running /\ variant = "v5"
    /\ c.pc = "recv"
    /\ cbs' = Move(cbs, c, Cb("check", c.pr))
    /\ UNCHANGED << cfgVars, sigChan, pending, counterVars, shuttingDown,
                    ctxCancelled, sem, targetVars, sourceVars, mainVars, tasks, wireVars >>

\* v5.go 112: atomic.AddUint64(&receivedCount, 1)
CbRecv(c) ==
    /\ Running /\ variant = "v5"
    /\ c.pc = "recv"
    /\ receivedCount' = receivedCount + 1
    /\ cbs' = Move(cbs, c, Cb("check", c.pr))
    /\ UNCHANGED << cfgVars, sigChan, pending, deliveredCount, errorCount, shuttingDown,
                    ctxCancelled, sem, targetVars, sourceVars, mainVars, tasks, wireVars >>

\* mutant: the shutdown flag is not tested
CbCheckIgnoreShutdown(c) ==
    /\ Running /\ variant = "v5"
    /\ c.pc = "check"
    /\ cbs' = Move(cbs, c, Cb("acquire", c.pr))
    /\ UNCHANGED << cfgVars, sigChan, pending, counterVars, shuttingDown, ctxCancelled, sem,
                    targetVars, sourceVars, mainVars, tasks, wireVars >>

\* v5.go 114-116: if shuttingDown.Load() { return true, nil }
CbCheck(c) ==
    /\ Running /\ variant = "v5"
    /\ c.pc = "check"
    /\ cbs' = IF shuttingDown THEN Drop(cbs, c) ELSE Move(cbs, c, Cb("acquire", c.pr))
    /\ UNCHANGED << cfgVars, sigChan, pending, counterVars, shuttingDown, ctxCancelled, sem,
                    targetVars, sourceVars, mainVars, tasks, wireVars >>

\* mutant: the capacity of sem is not respected
SemNeverFull == TRUE

\* v5.go 119-120: a send on the buffered channel sem succeeds without blocking
\* when it holds fewer than cap(sem) = cfg.QueueSize elements
SemHasRoom == sem < cfg.QueueSize

\* mutant: a refused publish is counted as an error
CbAcquireErrOnDrop(c) ==
    /\ Running /\ variant = "v5"
    /\ c.pc = "acquire"
    /\ IF SemHasRoom
       THEN /\ sem' = sem + 1
            /\ cbs' = Move(cbs, c, Cb("dispatch", c.pr))
            /\ errorCount' = errorCount
       ELSE /\ sem' = sem
            /\ cbs' = Drop(cbs, c)
            /\ errorCount' = errorCount + 1
    /\ UNCHANGED << cfgVars, sigChan, pending, receivedCount, deliveredCount, shuttingDown,
                    ctxCancelled, targetVars, sourceVars, mainVars, tasks, wireVars >>

\* mutant: the send on sem has no default case and waits for room
CbAcquireBlocking(c) ==
    /\ Running /\ variant = "v5"
    /\ c.pc = "acquire"
    /\ SemHasRoom
    /\ sem' = sem + 1
    /\ cbs' = Move(cbs, c, Cb("dispatch", c.pr))
    /\ UNCHANGED << cfgVars, sigChan, pending, counterVars, shuttingDown, ctxCancelled,
                    targetVars, sourceVars, mainVars, tasks, wireVars >>

\* v5.go 118-123: select { case sem <- struct{}{}: default: return true, nil }
CbAcquire(c) ==
    /\ Running /\ variant = "v5"
    /\ c.pc = "acquire"
    /\ IF SemHasRoom
       THEN /\ sem' = sem + 1
            /\ cbs' = Move(cbs, c, Cb("dispatch", c.pr))
       ELSE /\ sem' = sem
            /\ cbs' = Drop(cbs, c)
    /\ UNCHANGED << cfgVars, sigChan, pending, counterVars, shuttingDown, ctxCancelled,
                    targetVars, sourceVars, mainVars, tasks, wireVars >>

\* mutant: the goroutine is spawned without counting the dispatch
CbDispatchUncounted(c) ==
    /\ Running /\ variant = "v5"
    /\ c.pc = "dispatch"
    /\ tasks' = Put(tasks, Task("check", BuildPub(cfg, c.pr), 0))
    /\ cbs' = Drop(cbs, c)
    /\ UNCHANGED << cfgVars, sigChan, pending, counterVars, shuttingDown,
                    ctxCancelled, sem, targetVars, sourceVars, mainVars, wireVars >>

\* v5.go 125-186: build pub, atomic.AddUint64(&deliveredCount, 1), go func()
CbDispatch(c) ==
    /\ Running /\ variant = "v5"
    /\ c.pc = "dispatch"
    /\ deliveredCount' = deliveredCount + 1
    /\ tasks' = Put(tasks, Task("check", BuildPub(cfg, c.pr), 0))
    /\ cbs' = Drop(cbs, c)
    /\ UNCHANGED << cfgVars, sigChan, pending, receivedCount, errorCount, shuttingDown,
                    ctxCancelled, sem, targetVars, sourceVars, mainVars, wireVars >>

(***************************************************************************)
(* RunV5: the delivery goroutine (v5.go 164-184).                          *)
(***************************************************************************)
\* mutant: the early return of a shutdown skips the deferred release
TaskCheckLeak(t) ==
    /\ Running /\ variant = "v5"
    /\ t.pc = "check"
    /\ tasks' = IF shuttingDown THEN Drop(tasks, t) ELSE Move(tasks, t, Task("read", t.pub, 0))
    /\ UNCHANGED << cfgVars, sigChan, pending, counterVars, shuttingDown, ctxCancelled, sem,
                    targetVars, sourceVars, mainVars, cbs, wireVars >>

\* v5.go 167-169: if shuttingDown.Load() { return }
TaskCheck(t) ==
    /\ Running /\ variant = "v5"
    /\ t.pc = "check"
    /\ tasks' = Move(tasks, t, Task(IF shuttingDown THEN "release" ELSE "read", t.pub, 0))
    /\ UNCHANGED << cfgVars, sigChan, pending, counterVars, shuttingDown, ctxCancelled, sem,
                    targetVars, sourceVars, mainVars, cbs, wireVars >>

\* mutant: one lock guards both links
TaskReadOneLock(t) ==
    /\ Running /\ variant = "v5"
    /\ t.pc = "read"
    /\ targetMu = "free" /\ sourceMu = "free"
    /\ tasks' = Move(tasks, t, Task("publish", t.pub, targetClient))
    /\ UNCHANGED << cfgVars, sigChan, pending, counterVars, shuttingDown, ctxCancelled, sem,
                    targetVars, sourceVars, mainVars, cbs, wireVars >>

\* v5.go 174-176: client := targetClient under targetMu.RLock()
TaskRead(t) ==
    /\ Running /\ variant = "v5"
    /\ t.pc = "read"
    /\ targetMu = "free"
    /\ tasks' = Move(tasks, t, Task("publish", t.pub, targetClient))
    /\ UNCHANGED << cfgVars, sigChan, pending, counterVars, shuttingDown, ctxCancelled, sem,
                    targetVars, sourceVars, mainVars, cbs, wireVars >>

\* a Publish can succeed only on a client whose connection is open; it can
\* fail on any (a write error, or the deadline of pubCtx)
CanPublish(client) == client \in tOpen

\* mutant: a failed Publish is tried again
TaskPublishRetry(t, outcome) ==
    /\ Running /\ variant = "v5"
    /\ t.pc = "publish"
    /\ tasks' = Move(tasks, t, Task(IF outcome = "err" THEN "read" ELSE "release", t.pub, 0))
    /\ IF t.client = 0
       THEN /\ outcome = "skip"
            /\ UNCHANGED << errorCount, wireVars >>
       ELSE /\ outcome \in {"ok", "err"}
            /\ outcome = "ok" => CanPublish(t.client)
            /\ publishCalls' = publishCalls + 1
            /\ IF outcome = "ok"
               THEN /\ publishOk' = publishOk + 1
                    /\ targetGot' = targetGot \cup {t.pub}
                    /\ errorCount' = errorCount
               ELSE /\ errorCount' = errorCount + 1
                    /\ UNCHANGED << publishOk, targetGot >>
    /\ UNCHANGED << cfgVars, sigChan, pending, receivedCount, deliveredCount, shuttingDown,
                    ctxCancelled, sem, targetVars, sourceVars, mainVars, cbs >>

\* v5.go 178-183: if client != nil { Publish; on error errorCount += 1 }
TaskPublish(t, outcome) ==
    /\ Running /\ variant = "v5"
    /\ t.pc = "publish"
    /\ tasks' = Move(tasks, t, Task("release", t.pub, 0))
    /\ IF t.client = 0
       THEN /\ outcome = "skip"
            /\ UNCHANGED << errorCount, wireVars >>
       ELSE /\ outcome \in {"ok", "err"}
            /\ outcome = "ok" => CanPublish(t.client)
            /\ publishCalls' = publishCalls + 1
            /\ IF outcome = "ok"
               THEN /\ publishOk' = publishOk + 1
                    /\ targetGot' = targetGot \cup {t.pub}
                    /\ errorCount' = errorCount
               ELSE /\ errorCount' = errorCount + 1
                    /\ UNCHANGED << publishOk, targetGot >>
    /\ UNCHANGED << cfgVars, sigChan, pending, receivedCount, deliveredCount, shuttingDown,
                    ctxCancelled, sem, targetVars, sourceVars, mainVars, cbs >>

\* v5.go 165: defer func() { <-sem }()
TaskRelease(t) ==
    /\ Running /\ variant = "v5"
    /\ t.pc = "release"
    /\ sem > 0
    /\ sem' = sem - 1
    /\ tasks' = Drop(tasks, t)
    /\ UNCHANGED << cfgVars, sigChan, pending, counterVars, shuttingDown, ctxCancelled,
                    targetVars, sourceVars, mainVars, cbs, wireVars >>

(***************************************************************************)
(* RunV3 (v5.go 396-591): startup.                                         *)
(***************************************************************************)
\* v5.go 438-446: targetClient.Connect(), token.WaitTimeout, token.Error
V3ConnectTarget(outcome) ==
    /\ pc = "v3Target"
    /\ IF outcome = "ok"
       THEN /\ targetClient' = 1 /\ targetConn' = 1 /\ tOpen' = {1}
            /\ pc' = "v3Source"
       ELSE /\ UNCHANGED << targetClient, targetConn, tOpen >>
            /\ pc' = "failed"
    /\ UNCHANGED << cfgVars, sigChan, pending, ret, counterVars, shuttingDown, ctxCancelled, sem,
                    targetMu, sourceVars, lastVars, tickVars, finalVars, cbs, tasks,
                    wireVars, tickLog, sumDeltas, tgtTry >>

\* v5.go 503-513: sourceClient.Connect(); on failure targetClient.Disconnect(250)
V3ConnectSource(outcome) ==
    /\ pc = "v3Source"
    /\ IF outcome = "ok"
       THEN /\ sourceConn' = 1 /\ sOpen' = {1}
            /\ tOpen' = tOpen
            /\ pc' = "v3Subscribe"
       ELSE /\ UNCHANGED << sourceConn, sOpen >>
            /\ tOpen' = {}
            /\ pc' = "failed"
    /\ UNCHANGED << cfgVars, sigChan, pending, ret, counterVars, shuttingDown, ctxCancelled, sem,
                    targetMu, targetClient, targetConn, sourceMu, subscribed, lastVars,
                    tickVars, finalVars, cbs, tasks, wireVars, tickLog, sumDeltas, tgtTry >>

\* v5.go 516-527: sourceClient.Subscribe(cfg.Topic, 2, nil); on failure both
\* clients are disconnected
V3Subscribe(outcome) ==
    /\ pc = "v3Subscribe"
    /\ IF outcome = "ok"
       THEN /\ subscribed' = 1
            /\ UNCHANGED << sOpen, tOpen >>
            /\ pc' = "loop"
       ELSE /\ subscribed' = 0
            /\ sOpen' = {} /\ tOpen' = {}
            /\ pc' = "failed"
    /\ UNCHANGED << cfgVars, sigChan, pending, ret, counterVars, shuttingDown, ctxCancelled, sem,
                    targetMu, targetClient, targetConn, sourceMu, sourceConn, lastVars,
                    tickVars, finalVars, cbs, tasks, wireVars, tickLog, sumDeltas, tgtTry >>

(***************************************************************************)
(* RunV3: the tick (v5.go 561-588) and the shutdown (v5.go 545-559).       *)
(***************************************************************************)
\* v5.go 561-562: received := atomic.LoadUint64(&receivedCount)
V3TickR ==
    /\ pc = "loop"
    /\ variant = "v3"
    /\ received' = receivedCount
    /\ pc' = "v3TickD"
    /\ UNCHANGED << cfgVars, sigChan, pending, ret, counterVars, shuttingDown, ctxCancelled, sem,
                    targetVars, sourceVars, lastVars, delivered, errors, deltaReceived,
                    deltaDelivered, deltaErrors, finalVars, cbs, tasks, wireVars, tickLog, sumDeltas, tgtTry >>

\* v5.go 563-588: delivered := atomic.LoadUint64(&deliveredCount); the deltas,
\* the baselines, the metrics line
V3TickD ==
    /\ pc = "v3TickD"
    /\ delivered' = deliveredCount
    /\ lastReceived' = received
    /\ lastDelivered' = deliveredCount
    /\ pc' = "loop"
    /\ UNCHANGED << cfgVars, sigChan, pending, ret, counterVars, shuttingDown, ctxCancelled, sem,
                    targetVars, sourceVars, lastErrors, sourceStallCount, received,
                    errors, deltaReceived, deltaDelivered, deltaErrors, finalVars,
                    cbs, tasks, wireVars, tickLog, sumDeltas, tgtTry >>

\* v5.go 545-550: the signal is taken from sigChan; shuttingDown.Store(true)
V3Signal ==
    /\ pc = "loop"
    /\ variant = "v3"
    /\ sigChan > 0
    /\ sigChan' = sigChan - 1
    /\ shuttingDown' = TRUE
    /\ pc' = "v3DiscSource"
    /\ UNCHANGED << cfgVars, pending, ret, counterVars, ctxCancelled, sem,
                    targetVars, sourceVars, lastVars, tickVars, finalVars, cbs, tasks,
                    wireVars, tickLog, sumDeltas, tgtTry >>

\* v5.go 553: sourceClient.Disconnect(0)
V3DisconnectSource ==
    /\ pc = "v3DiscSource"
    /\ sOpen' = {} /\ subscribed' = 0
    /\ pc' = "v3DiscTarget"
    /\ UNCHANGED << cfgVars, sigChan, pending, ret, counterVars, shuttingDown, ctxCancelled, sem,
                    targetVars, sourceMu, sourceConn, lastVars, tickVars, finalVars,
                    cbs, tasks, wireVars, tickLog, sumDeltas, tgtTry >>

\* v5.go 554: targetClient.Disconnect(0)
V3DisconnectTarget ==
    /\ pc = "v3DiscTarget"
    /\ tOpen' = {}
    /\ pc' = "v3FinalR"
    /\ UNCHANGED << cfgVars, sigChan, pending, ret, counterVars, shuttingDown, ctxCancelled, sem,
                    targetMu, targetClient, targetConn, sourceVars, lastVars, tickVars,
                    finalVars, cbs, tasks, wireVars, tickLog, sumDeltas, tgtTry >>

\* v5.go 556: finalReceived := atomic.LoadUint64(&receivedCount)
V3FinalR ==
    /\ pc = "v3FinalR"
    /\ finalReceived' = receivedCount
    /\ pc' = "v3FinalD"
    /\ UNCHANGED << cfgVars, sigChan, pending, ret, counterVars, shuttingDown, ctxCancelled, sem,
                    targetVars, sourceVars, lastVars, tickVars, finalDelivered,
                    cbs, tasks, wireVars, tickLog, sumDeltas, tgtTry >>

\* v5.go 557-559: finalDelivered := atomic.LoadUint64(&deliveredCount); return nil
V3FinalD ==
    /\ pc = "v3FinalD"
    /\ finalDelivered' = deliveredCount
    /\ pc' = "done"
    /\ UNCHANGED << cfgVars, sigChan, pending, ret, counterVars, shuttingDown, ctxCancelled, sem,
                    targetVars, sourceVars, lastVars, tickVars, finalReceived,
                    cbs, tasks, wireVars, tickLog, sumDeltas, tgtTry >>

(***************************************************************************)
(* RunV3: onMessage (v5.go 449-484) and its goroutine (v5.go 478-483).     *)
(***************************************************************************)
\* v5.go 450: atomic.AddUint64(&receivedCount, 1)
V3CbRecv(c) ==
    /\ Running /\ variant = "v3"
    /\ c.pc = "recv"
    /\ receivedCount' = receivedCount + 1
    /\ cbs' = Move(cbs, c, Cb("check", c.pr))
    /\ UNCHANGED << cfgVars, sigChan, pending, deliveredCount, errorCount, shuttingDown,
                    ctxCancelled, sem, targetVars, sourceVars, mainVars, tasks, wireVars >>

\* v5.go 453-455: if shuttingDown.Load() { return }
V3CbCheck(c) ==
    /\ Running /\ variant = "v3"
    /\ c.pc = "check"
    /\ cbs' = IF shuttingDown THEN Drop(cbs, c) ELSE Move(cbs, c, Cb("dispatch", c.pr))
    /\ UNCHANGED << cfgVars, sigChan, pending, counterVars, shuttingDown, ctxCancelled, sem,
                    targetVars, sourceVars, mainVars, tasks, wireVars >>

\* v5.go 466-483: qos, retain, atomic.AddUint64(&deliveredCount, 1), go func(...)
V3CbDispatch(c) ==
    /\ Running /\ variant = "v3"
    /\ c.pc = "dispatch"
    /\ deliveredCount' = deliveredCount + 1
    /\ tasks' = Put(tasks, Task("check", BuildPubV3(cfg, c.pr), 0))
    /\ cbs' = Drop(cbs, c)
    /\ UNCHANGED << cfgVars, sigChan, pending, receivedCount, errorCount, shuttingDown,
                    ctxCancelled, sem, targetVars, sourceVars, mainVars, wireVars >>

\* v5.go 479-481: if shuttingDown.Load() { return }
V3GoCheck(t) ==
    /\ Running /\ variant = "v3"
    /\ t.pc = "check"
    /\ tasks' = IF shuttingDown THEN Drop(tasks, t)
                ELSE Move(tasks, t, Task("publish", t.pub, targetClient))
    /\ UNCHANGED << cfgVars, sigChan, pending, counterVars, shuttingDown, ctxCancelled, sem,
                    targetVars, sourceVars, mainVars, cbs, wireVars >>

\* v5.go 482: targetClient.Publish(topic, qos, retained, payload); the token is dropped
V3GoPublish(t, outcome) ==
    /\ Running /\ variant = "v3"
    /\ t.pc = "publish"
    /\ outcome \in {"ok", "err"}
    /\ outcome = "ok" => CanPublish(t.client)
    /\ tasks' = Drop(tasks, t)
    /\ publishCalls' = publishCalls + 1
    /\ IF outcome = "ok"
       THEN /\ publishOk' = publishOk + 1
            /\ targetGot' = targetGot \cup {t.pub}
       ELSE UNCHANGED << publishOk, targetGot >>
    /\ UNCHANGED << cfgVars, sigChan, pending, counterVars, shuttingDown, ctxCancelled, sem,
                    targetVars, sourceVars, mainVars, cbs >>

(***************************************************************************)
(* RunV3: the links.  Both clients are built with SetAutoReconnect(true)   *)
(* (v5.go 428 and 492): when an established connection is lost, the client *)
(* library reconnects it from a goroutine of its own, until Disconnect is  *)
(* called.  The session is clean (SetCleanSession(true), 426 and 490) and  *)
(* no OnConnect handler subscribes again, so the subscription of a lost    *)
(* source connection is not restored.                                      *)
(***************************************************************************)
\* the broker or the network drops an established connection
V3ConnectionLost(link) ==
    /\ variant = "v3" /\ Bridging
    /\ IF link = "target"
       THEN /\ tOpen # {}
            /\ tOpen' = {}
            /\ UNCHANGED << sOpen, subscribed >>
       ELSE /\ sOpen # {}
            /\ sOpen' = {} /\ subscribed' = 0
            /\ tOpen' = tOpen
    /\ UNCHANGED << cfgVars, sigChan, pending, counterVars, shuttingDown, ctxCancelled, sem,
                    targetMu, targetClient, targetConn, sourceMu, sourceConn, mainVars,
                    cbs, tasks, wireVars >>

\* v5.go 428, 492: SetAutoReconnect(true)
V3AutoReconnect(link) ==
    /\ variant = "v3" /\ Bridging
    /\ IF link = "target"
       THEN /\ targetConn # 0 /\ tOpen = {}
            /\ tOpen' = {targetConn}
            /\ sOpen' = sOpen
       ELSE /\ sourceConn # 0 /\ sOpen = {}
            /\ sOpen' = {sourceConn}
            /\ tOpen' = tOpen
    /\ UNCHANGED << cfgVars, sigChan, pending, counterVars, shuttingDown, ctxCancelled, sem,
                    targetMu, targetClient, targetConn, sourceMu, sourceConn, subscribed,
                    mainVars, cbs, tasks, wireVars >>

(***************************************************************************)
(* The next-state relation and the specification.                          *)
(***************************************************************************)
ConnectOutcomes == {"ok", "dialFail", "handshakeFail"}
SourceOutcomes == {"ok", "dialFail", "handshakeFail", "subscribeFail"}

\* the next statement of the onPublish invocation c
CbStep(c) == CbRecv(c) \/ CbCheck(c) \/ CbAcquire(c) \/ CbDispatch(c)

MainV5 ==
    \/ CtLock
    \/ \E o \in ConnectOutcomes : CtFinish(o)
    \/ CsLock
    \/ \E o \in SourceOutcomes : CsFinish(o)
    \/ TickR \/ TickD \/ TickE \/ TickSpike \/ TickPrint
    \/ Signal \/ SdCancel \/ SdSource \/ SdTarget \/ SdFinalR \/ SdFinalD

RelayV5 ==
    \/ \E c \in BagToSet(cbs) : CbStep(c)
    \/ \E t \in BagToSet(tasks) : TaskCheck(t) \/ TaskRead(t) \/ TaskRelease(t)
    \/ \E t \in BagToSet(tasks), o \in {"ok", "err", "skip"} : TaskPublish(t, o)

MainV3 ==
    \/ \E o \in {"ok", "timeout", "error"} :
          V3ConnectTarget(o) \/ V3ConnectSource(o) \/ V3Subscribe(o)
    \/ V3TickR \/ V3TickD
    \/ V3Signal \/ V3DisconnectSource \/ V3DisconnectTarget \/ V3FinalR \/ V3FinalD

RelayV3 ==
    \/ \E c \in BagToSet(cbs) : V3CbRecv(c) \/ V3CbCheck(c) \/ V3CbDispatch(c)
    \/ \E t \in BagToSet(tasks) : V3GoCheck(t)
    \/ \E t \in BagToSet(tasks), o \in {"ok", "err"} : V3GoPublish(t, o)

LinkV3 ==
    \E link \in {"target", "source"} : V3ConnectionLost(link) \/ V3AutoReconnect(link)

Next ==
    \/ \E o \in {"ok", "unreachable"} : Start(o)
    \/ \E m \in srcMsgs : Arrive(m)
    \/ SigArrive
    \/ LinkV3
    \/ MainV5 \/ RelayV5 \/ MainV3 \/ RelayV3

Spec == Init /\ [][Next]_vars

(***************************************************************************)
(* The same program under the scheduling the Go runtime gives it: a        *)
(* goroutine that can run does run (the main goroutine, every onPublish    *)
(* invocation, every delivery goroutine), and a select whose signal case   *)
(* is ready each time it is entered does not pick the ticker case forever  *)
(* (the choice among ready cases is uniformly random).  The source         *)
(* forwards one publish.                                                   *)
(***************************************************************************)
InitLive ==
    InitWith({"v5", "v3"},
             {[QoS |-> -1, NoRetain |-> TRUE, QueueSize |-> q] : q \in 0..MaxQueue},
             {{Msg1}}, {1})

Fairness ==
    /\ WF_vars(MainV5 \/ MainV3)
    /\ SF_vars(Signal \/ V3Signal)
    /\ WF_vars(RelayV5 \/ RelayV3)

SpecLive == InitLive /\ [][Next]_vars /\ Fairness

(***************************************************************************)
(* The relay alone: the session is Bridging (both links connected, the     *)
(* subscription live) and the source forwards one publish, drawn with the  *)
(* configuration from every combination the transform distinguishes.       *)
(***************************************************************************)
RelayCfgs == [QoS : {-1, 0, 1, 2, 256}, NoRetain : BOOLEAN, QueueSize : {1}]

RelayMsgs ==
    {Msg(t, p, q, r, pp) : t \in {"t/1", "t/2"}, p \in {"x", "y"}, q \in 0..2,
                           r \in BOOLEAN, pp \in {NoProps, SomeProps}}

InitRelay ==
    /\ variant \in {"v5", "v3"}
    /\ cfg \in RelayCfgs
    /\ srcMsgs \in {{m} : m \in {x \in RelayMsgs : variant = "v3" => x.props = NoProps}}
    /\ pending = 1
    /\ sigChan = 0
    /\ pc = "loop"
    /\ ret = "none"
    /\ receivedCount = 0 /\ deliveredCount = 0 /\ errorCount = 0
    /\ shuttingDown = FALSE
    /\ ctxCancelled = FALSE
    /\ sem = 0
    /\ targetMu = "free" /\ targetClient = 1 /\ targetConn = 1 /\ tOpen = {1}
    /\ sourceMu = "free" /\ sourceConn = 1 /\ sOpen = {1} /\ subscribed = 1
    /\ lastReceived = 0 /\ lastDelivered = 0 /\ lastErrors = 0
    /\ sourceStallCount = 0
    /\ received = 0 /\ delivered = 0 /\ errors = 0
    /\ deltaReceived = 0 /\ deltaDelivered = 0 /\ deltaErrors = 0
    /\ finalReceived = 0 /\ finalDelivered = 0
    /\ cbs = EmptyBag
    /\ tasks = EmptyBag
    /\ publishCalls = 0 /\ publishOk = 0 /\ targetGot = {}
    /\ tickLog = << >>
    /\ sumDeltas = [received |-> lastReceived, delivered |-> lastDelivered,
                    errors |-> lastErrors]
    /\ tgtTry = 0

NextRelay ==
    \/ \E m \in srcMsgs : Arrive(m)
    \/ RelayV5 \/ RelayV3

SpecRelay == InitRelay /\ [][NextRelay]_vars

(***************************************************************************)
(* The relay of RunV5 alone, as above, for every properties bag a publish  *)
(* forwarded to this client can carry: each of the six properties of an    *)
(* application message present or absent (0 and "" stand for absent).  A   *)
(* forwarded publish carries no Subscription Identifier, since the         *)
(* SUBSCRIBE of v5.go 233-237 has none, and no Topic Alias, since the      *)
(* CONNECT of v5.go 214-218 announces no Topic Alias Maximum.              *)
(***************************************************************************)
SourceProps ==
    [present : {TRUE}, PayloadFormat : {0, 1}, MessageExpiry : {0, 60},
     ContentType : {"", "text"}, ResponseTopic : {"", "r/1"},
     CorrelationData : {"", "c"}, User : {"", "k=v"},
     SubscriptionIdentifier : {0}, TopicAlias : {0}] \cup {NoProps}

InitProps ==
    /\ variant = "v5"
    /\ cfg = [QoS |-> -1, NoRetain |-> FALSE, QueueSize |-> 1]
    /\ srcMsgs \in {{Msg("t/1", "x", 0, FALSE, pp)} : pp \in SourceProps}
    /\ pending = 1
    /\ sigChan = 0
    /\ pc = "loop"
    /\ ret = "none"
    /\ receivedCount = 0 /\ deliveredCount = 0 /\ errorCount = 0
    /\ shuttingDown = FALSE
    /\ ctxCancelled = FALSE
    /\ sem = 0
    /\ targetMu = "free" /\ targetClient = 1 /\ targetConn = 1 /\ tOpen = {1}
    /\ sourceMu = "free" /\ sourceConn = 1 /\ sOpen = {1} /\ subscribed = 1
    /\ lastReceived = 0 /\ lastDelivered = 0 /\ lastErrors = 0
    /\ sourceStallCount = 0
    /\ received = 0 /\ delivered = 0 /\ errors = 0
    /\ deltaReceived = 0 /\ deltaDelivered = 0 /\ deltaErrors = 0
    /\ finalReceived = 0 /\ finalDelivered = 0
    /\ cbs = EmptyBag
    /\ tasks = EmptyBag
    /\ publishCalls = 0 /\ publishOk = 0 /\ targetGot = {}
    /\ tickLog = << >>
    /\ sumDeltas = [received |-> lastReceived, delivered |-> lastDelivered,
                    errors |-> lastErrors]
    /\ tgtTry = 0

NextProps ==
    \/ \E m \in srcMsgs : Arrive(m)
    \/ RelayV5

SpecProps == InitProps /\ [][NextProps]_vars

(***************************************************************************)
(* The health monitor alone: RunV5 is Bridging with the default queue      *)
(* size, every goroutine spawned so far has finished, and the counters and *)
(* the baselines of the last tick are drawn from values on both sides of   *)
(* the two thresholds of the error-spike detector.                         *)
(***************************************************************************)
HealthCounters ==
    {c \in [delivered : {0, 10, 202, 250}, lastDelivered : {0, 10, 202, 250},
            errors : {0, 5, 6, 100, 101}, lastErrors : {0}] :
        /\ c.lastDelivered \in {0, c.delivered}
        /\ c.errors <= c.delivered}

InitHealth ==
    /\ variant = "v5"
    /\ cfg = [QoS |-> -1, NoRetain |-> FALSE, QueueSize |-> DefaultQueueSize]
    /\ srcMsgs = {Msg1}
    /\ pending = 0
    /\ sigChan = 0
    /\ pc = "loop"
    /\ ret = "none"
    /\ \E c \in HealthCounters :
          /\ receivedCount = c.delivered /\ deliveredCount = c.delivered
          /\ errorCount = c.errors
          /\ lastReceived = c.lastDelivered /\ lastDelivered = c.lastDelivered
          /\ lastErrors = c.lastErrors
          /\ received = c.lastDelivered /\ delivered = c.lastDelivered
          /\ errors = c.lastErrors
          /\ publishCalls = c.delivered /\ publishOk = c.delivered - c.errors
    /\ shuttingDown = FALSE
    /\ ctxCancelled = FALSE
    /\ sem = 0
    /\ targetMu = "free" /\ targetClient = 1 /\ targetConn = 1 /\ tOpen = {1}
    /\ sourceMu = "free" /\ sourceConn = 1 /\ sOpen = {1} /\ subscribed = 1
    /\ sourceStallCount = 0
    /\ deltaReceived = 0 /\ deltaDelivered = 0 /\ deltaErrors = 0
    /\ finalReceived = 0 /\ finalDelivered = 0
    /\ cbs = EmptyBag
    /\ tasks = EmptyBag
    /\ targetGot = {}
    /\ tickLog = << >>
    /\ sumDeltas = [received |-> lastReceived, delivered |-> lastDelivered,
                    errors |-> lastErrors]
    /\ tgtTry = 0

SpecHealth == InitHealth /\ [][MainV5 \/ SigArrive]_vars

(***************************************************************************)
(* Properties.                                                             *)
(***************************************************************************)
V5 == variant = "v5"
NumTasks == BagCardinality(tasks)
AtPc(B, p) == {e \in BagToSet(B) : e.pc = p}

\* C1: in RunV5 the number of delivery goroutines spawned and not finished
\* never exceeds cfg.QueueSize.
C1_BackpressureBound == V5 => NumTasks <= cfg.QueueSize

\* a goroutine holds the only permit, and a second publish was received and
\* refused meanwhile
C1_Witness ==
    /\ V5 /\ cfg.QueueSize = 1 /\ NumTasks = 1 /\ sem = 1
    /\ receivedCount = 2 /\ deliveredCount = 1 /\ cbs = EmptyBag /\ ~shuttingDown

\* C2: in both variants received >= delivered >= publishes that succeeded on
\* the target, in every state.
C2_CounterOrder == receivedCount >= deliveredCount /\ deliveredCount >= publishOk

\* every publish received was dispatched and published successfully
C2_Witness == receivedCount = MaxMsgs /\ deliveredCount = MaxMsgs /\ publishOk = MaxMsgs

\* C3: the lifetime values a tick of RunV5 has read satisfy delivered <= received.
C3_TickDeliveredLeReceived == V5 /\ pc = "tickE" => delivered <= received

\* C4 as claimed: each of received, delivered, errors read by a tick is at
\* least the value the tick before it read.
C4_AllReadsMonotone ==
    [][V5 => received' >= received /\ delivered' >= delivered /\ errors' >= errors]_vars

\* C4 as amended: received and delivered read by a tick are at least the
\* values the tick before it read; errors is too, unless the target reconnect
\* of the earlier tick succeeded and reset errorCount (v5.go 343-344): then
\* the baseline lastErrors is 0 and differs from the errors that tick read.
C4_ReadsMonotoneUnlessReset ==
    [][V5 => /\ received' >= received
             /\ delivered' >= delivered
             /\ errors' < errors => (lastErrors = 0 /\ errorCount < errors)]_vars

\* a tick has read errors after an earlier tick's reset wiped a recorded error
C4_Witness ==
    /\ V5 /\ pc = "tickSpike" /\ Len(tickLog) >= 2
    /\ publishCalls - publishOk > errorCount
    /\ errors < publishCalls - publishOk

\* C5: an onPublish invocation whose non-blocking send finds all QueueSize
\* permits held returns at once: delivered, errors, the permits, the
\* goroutines and the Publish calls are unchanged; and the only step of any
\* invocation that changes received is its first, which adds exactly 1.
C5_DropOnFull ==
    [][V5 =>
        /\ \A c \in AtPc(cbs, "acquire") :
              (sem = cfg.QueueSize /\ CopiesIn(c, cbs') < CopiesIn(c, cbs)) =>
                  /\ cbs' = Drop(cbs, c)
                  /\ UNCHANGED << counterVars, sem, tasks, wireVars >>
        /\ receivedCount' # receivedCount =>
              /\ receivedCount' = receivedCount + 1
              /\ \E c \in AtPc(cbs, "recv") : cbs' = Move(cbs, c, Cb("check", c.pr))
     ]_vars

\* a publish was received and dropped while the only permit was held
C5_Witness ==
    /\ V5 /\ cfg.QueueSize = 1 /\ sem = 1 /\ NumTasks = 1 /\ ~shuttingDown
    /\ receivedCount = 2 /\ deliveredCount = 1 /\ errorCount = 0
    /\ publishCalls = 0 /\ cbs = EmptyBag /\ pending = 0


\* the publishes built so far: those held by the goroutines and those the
\* target accepted (the source forwards one publish per run, srcMsgs = {m})
Relayed == {t.pub : t \in BagToSet(tasks)} \cup targetGot

\* C6: the QoS of every dispatched publish, and of every publish the target
\* accepts, is cfg.QoS when that is 0, 1 or 2 and the source QoS when it is -1.
C6_RelayedQoS ==
    \A m \in srcMsgs : \A r \in Relayed :
        /\ cfg.QoS \in {0, 1, 2} => r.qos = cfg.QoS
        /\ cfg.QoS = -1 => r.qos = m.qos

\* qosOverride = 1, source QoS 0: the target accepted the publish at QoS 1
C6_Witness ==
    /\ cfg.QoS = 1
    /\ \E m \in srcMsgs : m.qos = 0
    /\ \E r \in targetGot : r.qos = 1

\* C7: every dispatched publish, and every publish the target accepts,
\* carries the source topic and payload, with retain false when cfg.NoRetain
\* and the source retain flag otherwise.
C7_RelayedTopicPayloadRetain ==
    \A m \in srcMsgs : \A r \in Relayed :
        /\ r.topic = m.topic
        /\ r.payload = m.payload
        /\ r.retain = (IF cfg.NoRetain THEN FALSE ELSE m.retain)

\* the end-to-end scenario: {t/1, qos 0, retain, "x"} with qosOverride = -1
\* and stripRetain arrives at the target as {t/1, qos 0, not retained, "x"}
C7_Witness ==
    /\ cfg.QoS = -1 /\ cfg.NoRetain
    /\ srcMsgs = {Msg1}
    /\ targetGot = {Msg("t/1", "x", 0, FALSE, NoProps)}


NumTicks == Len(tickLog)
LastTick == tickLog[NumTicks]
\* a tick of RunV5 is past its stall detector
PastStall == pc \in {"csLock", "csDial", "tickSpike", "tickPrint"} \/ ret = "spike"
\* a tick of RunV5 is past the decision of its error-spike detector
PastSpike == pc = "tickPrint" \/ ret = "spike"

\* C8: a tick attempts a source reconnect only if it and the two ticks before
\* it each had deltaReceived = 0 with received > 0; and three such ticks in a
\* row that start from stall counter 0 give exactly one attempt, on the third.
C8_StallTrigger ==
    V5 /\ NumTicks > 0 =>
        /\ LastTick.srcTry \in {0, 1}
        /\ PastStall => (LastTick.stalled <=> (deltaReceived = 0 /\ received > 0))
        /\ LastTick.srcTry = 1 =>
              /\ NumTicks >= 3
              /\ \A k \in (NumTicks - 2)..NumTicks : tickLog[k].stalled
        /\ ( /\ NumTicks >= 3
             /\ \A k \in (NumTicks - 2)..NumTicks : tickLog[k].stalled
             /\ tickLog[NumTicks - 2].count0 = 0 ) =>
              /\ tickLog[NumTicks - 2].srcTry = 0
              /\ tickLog[NumTicks - 1].srcTry = 0
              /\ tickLog[NumTicks].srcTry = 1

\* the third stalled tick in a row, counted from 0, calls connectSource
C8_Witness ==
    /\ V5 /\ pc = "csLock" /\ ret = "stall" /\ NumTicks >= 3
    /\ \A k \in (NumTicks - 2)..NumTicks : tickLog[k].stalled
    /\ tickLog[NumTicks - 2].count0 = 0
    /\ LastTick.srcTry = 1

\* the source reconnect the stall detector commanded has just returned
StallReconnectReturned == V5 /\ pc = "tickSpike" /\ NumTicks > 0 /\ LastTick.srcTry = 1

C10_SpikeTrigger ==
    /\ tgtTry \in {0, 1}
    /\ V5 /\ PastSpike =>
          (tgtTry = 1 <=>
              (deltaErrors > 100 \/ (deltaDelivered > 0 /\ 2 * deltaErrors > deltaDelivered)))

\* deltaDelivered = 10, deltaErrors = 6: the tick reconnected the target once
C10_Witness ==
    /\ V5 /\ pc = "tickPrint" /\ deltaDelivered = 10 /\ deltaErrors = 6 /\ tgtTry = 1


\* connectTarget, called by the error-spike detector, returns in this step
SpikeReconnectReturns == V5 /\ pc = "ctDial" /\ ret = "spike" /\ pc' = "tickPrint"
\* ... and it returns nil: a new connection has been installed
SpikeReconnectSucceeds == SpikeReconnectReturns /\ targetConn' # targetConn

\* C11: when the target reconnect commanded by the error-spike detector
\* succeeds, errorCount and lastErrors are both 0 as the tick goes on; when it
\* fails, both keep their values; and errorCount never goes down in any other
\* step of RunV5.
C11_ErrorResetOnSuccess ==
    [][V5 =>
        /\ SpikeReconnectSucceeds => errorCount' = 0 /\ lastErrors' = 0
        /\ (SpikeReconnectReturns /\ ~SpikeReconnectSucceeds) =>
              errorCount' = errorCount /\ lastErrors' = lastErrors
        /\ errorCount' < errorCount => SpikeReconnectSucceeds
     ]_vars

\* a tick that read errors > 0 reconnected the target and wiped the counter
\* and the baseline it had just set to that reading
C11_Witness ==
    /\ V5 /\ pc = "tickPrint" /\ tgtTry = 1 /\ errors > 0
    /\ targetConn \in tOpen
    /\ errorCount = 0 /\ lastErrors = 0

\* C12 (as claimed): once shuttingDown is true in RunV5, no step acquires a
\* permit, increments delivered or issues a Publish on the target.
C12_NoDispatchAfterShutdown ==
    [][V5 /\ shuttingDown =>
          sem' <= sem /\ deliveredCount' = deliveredCount /\ publishCalls' = publishCalls]_vars


\* the positions of the shutdown branch (v5.go 282-304, 545-559) and the return
ShutdownPcs ==
    {"sdCancel", "sdSource", "sdTarget", "sdFinalR", "sdFinalD",
     "v3DiscSource", "v3DiscTarget", "v3FinalR", "v3FinalD", "done"}

\* C13: a signal that arrives while Bridging leads to the return of nil;
\* from the step that takes it from sigChan the main goroutine is only ever in
\* the shutdown branch (no tick, no reconnect); the flag is set first, then
\* the context is cancelled (RunV5), no target connection is closed while a
\* source connection is open, and at the return both links are closed.
C13_ShutdownCompletes ==
    /\ [](shuttingDown => pc \in ShutdownPcs)
    /\ [](pc \in ShutdownPcs => shuttingDown)
    /\ [](V5 /\ shuttingDown => (ctxCancelled <=> pc # "sdCancel"))
    /\ [][shuttingDown /\ tOpen' # tOpen => sOpen = {}]_vars
    /\ [](pc = "done" => sOpen = {} /\ tOpen = {} /\ subscribed = 0)
    /\ (sigChan > 0 /\ Bridging) ~> (pc = "done")

\* RunV5 has returned nil after a shutdown that closed two live links, with
\* the one publish it received in the final totals
C13_Witness ==
    /\ V5 /\ pc = "done" /\ shuttingDown /\ ctxCancelled
    /\ sourceConn # 0 /\ targetConn # 0 /\ sOpen = {} /\ tOpen = {}
    /\ finalReceived = 1 /\ finalDelivered = 1


\* C14 (as claimed): the totals RunV5 prints at shutdown equal the received
\* and delivered values read by the last tick before the signal.
C14_FinalEqualsLastSnapshot ==
    V5 /\ pc = "done" /\ NumTicks > 0 =>
        finalReceived = received /\ finalDelivered = delivered


\* the main goroutine is connecting or subscribing the source during startup
SourceInitPcs == {"v3Source", "v3Subscribe"} \cup (IF ret = "init" THEN {"csLock", "csDial"} ELSE {})

\* C15: the source is connected only while startup holds an open target
\* connection, so whenever a source connection, a subscription, a handler
\* invocation or a delivery goroutine exists the target client is non-nil,
\* and no goroutine reads a nil client; a failed target connect returns the
\* error with the source untouched; and when startup has failed no connection
\* is left open.
C15_TargetFirst ==
    /\ [](pc \in SourceInitPcs => targetClient # 0 /\ targetConn \in tOpen)
    /\ []((sourceConn # 0 \/ sOpen # {} \/ subscribed # 0 \/ cbs # EmptyBag \/ tasks # EmptyBag)
             => targetClient # 0)
    /\ [](\A t \in AtPc(tasks, "publish") : t.client # 0)
    /\ [][(pc \in {"ctDial", "v3Target"} /\ pc' = "failed") =>
             (sourceConn = 0 /\ sOpen = {} /\ UNCHANGED sourceVars)]_vars
    /\ [](pc = "failed" => tOpen = {} /\ sOpen = {} /\ subscribed = 0)

\* RunV5 has returned the error of a failed source connect: the target
\* connection it had opened is closed
C15_Witness ==
    /\ V5 /\ pc = "failed" /\ targetConn # 0 /\ targetClient # 0
    /\ tOpen = {} /\ sourceConn = 0


\* C16 (as claimed): once shuttingDown is true and the context of RunV5 is
\* cancelled, errorCount is never incremented again.
C16_NoErrorsAfterShutdown ==
    [][V5 /\ shuttingDown /\ ctxCancelled => errorCount' <= errorCount]_vars


\* a reconnect commanded by a tick of RunV5 is in progress
TickReconnecting == V5 /\ ret \in {"stall", "spike"}

\* C17: RunV5 returns an error only from startup; a reconnect commanded by a
\* tick, failed or not, returns into the rest of that tick, which leads back
\* to the select; every stalled tick that finds the stall counter at 2 or
\* more (so also the tick after a failed source reconnect) calls
\* connectSource, and every tick whose deltas meet the error-spike condition
\* calls connectTarget, whatever the previous attempt returned.
C17_ReconnectFailureNotFatal ==
    /\ [][V5 /\ pc' = "failed" => (pc = "start" \/ ret = "init")]_vars
    /\ [][(TickReconnecting /\ ret' = "none") => pc' \in {"tickSpike", "tickPrint"}]_vars
    /\ [](V5 => \A k \in 1..NumTicks :
                   (tickLog[k].stalled /\ tickLog[k].count0 >= 2) => tickLog[k].srcTry = 1)
    /\ []((V5 /\ PastSpike /\ (deltaErrors > 100
                                 \/ (deltaDelivered > 0 /\ 2 * deltaErrors > deltaDelivered)))
             => tgtTry = 1)
    /\ TickReconnecting ~> (pc = "loop")

\* the source reconnect of the previous tick failed, and this tick, stalled
\* again, calls connectSource again
C17_Witness ==
    /\ V5 /\ pc = "csLock" /\ ret = "stall" /\ NumTicks >= 2
    /\ tickLog[NumTicks - 1].srcTry = 1
    /\ LastTick.stalled /\ LastTick.count0 = 3 /\ LastTick.srcTry = 1
    /\ subscribed = 0


\* the delivery goroutines of RunV5 that have not reached their Publish yet
NotPublished ==
    BagCardinality(tasks) - BagCardinality([t \in AtPc(tasks, "release") |-> CopiesIn(t, tasks)])

\* C18: in RunV5 the Publish calls issued, plus the goroutines that have yet
\* to issue theirs, never exceed the dispatches counted in delivered; a step
\* that issues a Publish issues one, moves its goroutine to its exit and
\* leaves delivered alone, and adds exactly 1 to errors if the Publish failed
\* and nothing if it succeeded; errors grows in no other step, and delivered
\* never goes down.
C18_OnePublishPerDispatch ==
    /\ [](V5 => publishCalls + NotPublished <= deliveredCount)
    /\ [][V5 =>
          /\ deliveredCount' >= deliveredCount
          /\ publishCalls' # publishCalls =>
                /\ publishCalls' = publishCalls + 1
                /\ deliveredCount' = deliveredCount
                /\ \E t \in AtPc(tasks, "publish") :
                      tasks' = Move(tasks, t, Task("release", t.pub, 0))
                /\ errorCount' = IF publishOk' = publishOk THEN errorCount + 1 ELSE errorCount
          /\ errorCount' > errorCount =>
                errorCount' = errorCount + 1 /\ publishCalls' = publishCalls + 1
       ]_vars

\* the one Publish of a dispatched message failed: one error, delivered still
\* 1, no goroutine left to try again
C18_Witness ==
    /\ V5 /\ ~shuttingDown /\ receivedCount = 1 /\ deliveredCount = 1
    /\ publishCalls = 1 /\ publishOk = 0 /\ errorCount = 1
    /\ tasks = EmptyBag /\ cbs = EmptyBag /\ sem = 0 /\ targetGot = {}


\* how many members of the bag B are at position p
NumAt(B, p) == BagCardinality([e \in AtPc(B, p) |-> CopiesIn(e, B)])

\* C19 (as claimed): in RunV5 the permits held always equal the delivery
\* goroutines spawned and not finished.
C19_PermitsEqualTasks == V5 => sem = NumTasks

\* C19 (as amended): the permits held equal the goroutines spawned and not
\* finished plus the onPublish invocations between their acquire (line 119)
\* and their go statement (line 164); a permit is released only by a
\* goroutine at its exit, one per goroutine, and no goroutine ends without
\* releasing one; and while the process runs a held permit is eventually
\* released, the count returning to 0.
C19_PermitsHeld ==
    /\ [](V5 => sem = NumTasks + NumAt(cbs, "dispatch"))
    /\ [][V5 =>
          /\ sem' < sem =>
                sem' = sem - 1 /\ \E t \in AtPc(tasks, "release") : tasks' = Drop(tasks, t)
          /\ BagCardinality(tasks') < BagCardinality(tasks) => sem' = sem - 1
       ]_vars
    /\ (V5 /\ sem > 0) ~> (sem = 0 \/ ~Running)

\* a goroutine spawned before the shutdown returned early because of it, and
\* its permit is back: no Publish, no permit held
C19_Witness ==
    /\ V5 /\ Running /\ shuttingDown /\ deliveredCount = 1 /\ publishCalls = 0
    /\ tasks = EmptyBag /\ cbs = EmptyBag /\ sem = 0

\* C20 (as claimed): in RunV3 the publish goroutines spawned and not finished
\* never exceed cfg.QueueSize.
C20_V3BackpressureBound == variant = "v3" => NumTasks <= cfg.QueueSize


\* the main goroutine is inside a connect call of the startup sequence or of
\* a health tick
ConnectSites == {"ctDial", "csDial", "v3Target", "v3Source"}

\* C24 (as claimed): in both variants a connection of the source or the
\* target link is opened only by a connect call of the startup sequence or of
\* a health tick.
C24_NoAutoReconnect ==
    [][(tOpen' \ tOpen # {} \/ sOpen' \ sOpen # {}) => pc \in ConnectSites]_vars


\* C21 (as claimed): before the shutdown, every Publish of RunV5 is issued
\* while no target reconnect is in progress, on the client that is installed
\* at that moment and whose connection is open.
C21_PublishOnInstalledClient ==
    [][(V5 /\ ~shuttingDown /\ publishCalls' # publishCalls) =>
          /\ targetMu = "free"
          /\ \A t \in AtPc(tasks, "publish") :
                CopiesIn(t, tasks') < CopiesIn(t, tasks) =>
                    t.client = targetClient /\ t.client \in tOpen
     ]_vars


\* the statements an onPublish invocation at position p has still to run,
\* at most
StepsLeft(p) ==
    CASE p = "recv" -> 4 [] p = "check" -> 3 [] p = "acquire" -> 2 [] p = "dispatch" -> 1

\* the statements all the invocations in progress have still to run, at most
CbStepsLeft == BagCardinality([c \in BagToSet(cbs) |-> CopiesIn(c, cbs) * StepsLeft(c.pc)])

\* C22: while RunV5 runs, every onPublish invocation in progress can take its
\* next step in every state (whatever the permits held, the locks held and
\* the goroutines pending), and each step of an invocation brings it closer
\* to its return, which comes after at most four steps; no step of anything
\* else sets an invocation back.
C22_OnPublishNeverBlocks ==
    /\ [](V5 /\ Running => \A c \in BagToSet(cbs) : ENABLED CbStep(c))
    /\ [][V5 => \/ CbStepsLeft' < CbStepsLeft
                \/ cbs' = cbs
                \/ \E m \in srcMsgs : cbs' = Put(cbs, Cb("recv", m))]_vars

\* a source reconnect holds sourceMu, the only permit is held by a goroutine
\* that has not published yet, and a second publish has been received and
\* dropped: its invocation has returned
C22_Witness ==
    /\ V5 /\ Running /\ sourceMu = "w" /\ cfg.QueueSize = 1 /\ sem = 1
    /\ NumTasks = 1 /\ NotPublished = 1
    /\ receivedCount = 2 /\ deliveredCount = 1 /\ cbs = EmptyBag


\* C23: in RunV5 the two link locks are never held together; while
\* connectSource holds sourceMu, every goroutine about to read targetClient
\* can read it and every goroutine holding a client whose connection is open
\* can complete its Publish; and a step that takes or releases targetMu
\* leaves sourceMu free and the source link as it was.
C23_ReconnectHoldsOwnLock ==
    /\ [](V5 => ~(sourceMu = "w" /\ targetMu = "w"))
    /\ []((V5 /\ Running /\ sourceMu = "w") =>
            /\ \A t \in AtPc(tasks, "read") : ENABLED TaskRead(t)
            /\ \A t \in AtPc(tasks, "publish") :
                  t.client \in tOpen => ENABLED TaskPublish(t, "ok"))
    /\ [][(V5 /\ targetMu' # targetMu) => (sourceMu = "free" /\ UNCHANGED sourceVars)]_vars

\* connectSource holds sourceMu, called by a stalled tick, while a goroutine
\* has read the target client, whose connection is open, and is about to
\* publish on it
C23_Witness ==
    /\ V5 /\ Running /\ sourceMu = "w" /\ ret = "stall" /\ targetMu = "free"
    /\ \E t \in AtPc(tasks, "publish") : t.client = targetClient /\ t.client \in tOpen


C26_ShutdownDropCountsReceivedOnly ==
    [][(V5 /\ shuttingDown) =>
          /\ \A c \in AtPc(cbs, "recv") :
                CopiesIn(c, cbs') < CopiesIn(c, cbs) =>
                    /\ cbs' = Move(cbs, c, Cb("check", c.pr))
                    /\ receivedCount' = receivedCount + 1
                    /\ UNCHANGED << deliveredCount, errorCount, sem, tasks, wireVars >>
          /\ \A c \in AtPc(cbs, "check") :
                CopiesIn(c, cbs') < CopiesIn(c, cbs) =>
                    /\ cbs' = Drop(cbs, c)
                    /\ UNCHANGED << counterVars, sem, tasks, wireVars >>
     ]_vars

\* the shutdown had loaded finalReceived = 0 when the invocation began: it
\* has returned, received is 1 and nothing else has moved
C26_Witness ==
    /\ V5 /\ pc = "sdFinalD" /\ shuttingDown /\ cfg.QueueSize = 1
    /\ finalReceived = 0 /\ receivedCount = 1
    /\ deliveredCount = 0 /\ errorCount = 0 /\ sem = 0
    /\ cbs = EmptyBag /\ tasks = EmptyBag /\ publishCalls = 0


\* C27: in RunV5 each baseline is at most its counter in every state, and at
\* most the value the tick in progress read when that tick computes its
\* deltas (no wrap-around of the unsigned subtraction, also after the reset
\* of the errors counter); and the deltas reported so far add up, for each
\* counter, to at most the increments applied to it (for errors: the Publish
\* calls that failed).
C27_DeltasNeverOvercount ==
    V5 =>
        /\ lastReceived <= receivedCount
        /\ lastDelivered <= deliveredCount
        /\ lastErrors <= errorCount
        /\ pc = "tickE" => (lastReceived <= received /\ lastDelivered <= delivered)
        /\ deltaReceived <= receivedCount /\ deltaDelivered <= deliveredCount
        /\ deltaErrors <= publishCalls - publishOk
        /\ sumDeltas.received <= receivedCount
        /\ sumDeltas.delivered <= deliveredCount
        /\ sumDeltas.errors <= publishCalls - publishOk

\* the tick after a reset of the errors counter reports the one error
\* recorded since: delta 1 from baseline 0, two errors reported in all
C27_Witness ==
    /\ V5 /\ pc = "tickSpike" /\ NumTicks >= 2
    /\ errors = 1 /\ deltaErrors = 1 /\ sumDeltas.errors = 2
    /\ publishCalls - publishOk = 2


\* C28: in every state of RunV5 the errors counter is at most the Publish
\* calls that failed, and together with the goroutines that have yet to
\* publish it is at most the delivered counter: errors <= delivered.
C28_ErrorsLeDelivered ==
    V5 =>
        /\ errorCount <= publishCalls - publishOk
        /\ errorCount + NotPublished <= deliveredCount
        /\ errorCount <= deliveredCount

\* both dispatched publishes failed: errors = delivered = 2
C28_Witness ==
    /\ V5 /\ deliveredCount = MaxMsgs /\ errorCount = MaxMsgs /\ tasks = EmptyBag


\* C29: in RunV5, outside a connect call of a link, that link has at most
\* one open connection, and it is the stored one; inside the call, once the
\* lock is taken and the previous connection closed, the link has no open
\* connection until the call returns.
C29_AtMostOneOpenConnection ==
    V5 =>
        /\ pc # "ctDial" => (Cardinality(tOpen) <= 1 /\ tOpen \subseteq {targetConn})
        /\ pc # "csDial" => (Cardinality(sOpen) <= 1 /\ sOpen \subseteq {sourceConn})
        /\ pc = "ctDial" => tOpen = {}
        /\ pc = "csDial" => sOpen = {}

\* a source reconnect failed, the next tick tried again and succeeded: each
\* link has exactly one open connection, the stored one
C29_Witness ==
    /\ V5 /\ pc = "loop" /\ NumTicks >= 2
    /\ tickLog[NumTicks - 1].srcTry = 1 /\ LastTick.srcTry = 1
    /\ sOpen = {sourceConn} /\ sourceConn # 0
    /\ tOpen = {targetConn} /\ targetConn # 0


\* C30: in RunV5 the stored handles of a link change only in the step in
\* which a connect call returns success, under the lock of the link, client
\* and connection together, to a new open connection; a connect call that
\* returns a failure leaves the handles as they were and the link without an
\* open connection; and a Publish succeeds only on a client whose connection
\* is open, so with the target link dead every Publish fails.
C30_FailedReconnectLeavesDeadHandle ==
    /\ [][V5 =>
          /\ (targetClient' # targetClient \/ targetConn' # targetConn) =>
                /\ pc = "ctDial" /\ targetMu = "w"
                /\ targetClient' = targetConn' /\ targetConn' \notin {0, targetConn}
                /\ tOpen' = {targetConn'}
          /\ sourceConn' # sourceConn =>
                /\ pc = "csDial" /\ sourceMu = "w"
                /\ sourceConn' # 0 /\ sOpen' = {sourceConn'} /\ subscribed' = sourceConn'
          /\ (pc = "ctDial" /\ pc' # "ctDial" /\ targetConn' = targetConn) =>
                (targetClient' = targetClient /\ tOpen' = {})
          /\ (pc = "csDial" /\ pc' # "csDial" /\ sourceConn' = sourceConn) =>
                (sOpen' = {} /\ subscribed' = 0)
          /\ publishOk' # publishOk =>
                \E t \in AtPc(tasks, "publish") :
                    t.client \in tOpen /\ tasks' = Move(tasks, t, Task("release", t.pub, 0))
       ]_vars
    /\ []((V5 /\ targetConn \notin tOpen) => tOpen = {})
    /\ []((V5 /\ sourceConn \notin sOpen) => (sOpen = {} /\ subscribed = 0))

\* a target reconnect has failed: the stored client is the old one, its
\* connection closed, and a goroutine that read it is about to publish on it
C30_Witness ==
    /\ V5 /\ pc = "loop" /\ ~shuttingDown /\ NumTicks >= 1
    /\ targetConn # 0 /\ targetClient = targetConn /\ tOpen = {}
    /\ \E t \in AtPc(tasks, "publish") : t.client = targetClient

=============================================================================
